---- MODULE Spec2Model ----
(***************************************************************************)
(* The session guard of the admin panel: AuthProvider (contexts/AuthContext)*)
(* on top of the ApiClient (lib/api) and its token store in localStorage.  *)
(*                                                                         *)
(* Execution model.  JavaScript runs one task at a time.  An async         *)
(* function runs synchronously up to the first await whose promise is      *)
(* settled by the network (fetch); everything between the arrival of a     *)
(* response and the next fetch (or the function's end) runs in the         *)
(* microtasks of one task and is therefore one atomic step here.  An       *)
(* authenticatedRequest that throws locally never reaches the network, so  *)
(* the unwinding it causes belongs to the step that made the call.         *)
(* The await of fetch() and the await of response.json() are merged: the   *)
(* client reads and writes nothing between them.                           *)
(*                                                                         *)
(* The context value exposes login, logout and clearError to every         *)
(* consumer, so they may be invoked at any time after mount, also while    *)
(* earlier invocations are still awaiting a response.  The backend keeps   *)
(* to the shapes of its contract and is otherwise free: every answer is    *)
(* drawn nondeterministically.  The credentials only travel in the body    *)
(* of the login request and decide nothing in the client.                  *)
(***************************************************************************)
EXTENDS Integers, Sequences, FiniteSets

VARIABLES
    localStorage,   \* the browser's storage: a function from the keys present to strings
    user,           \* AuthProvider state `user`: null or Some(User)
    isLoading,      \* AuthProvider state `isLoading`
    error,          \* AuthProvider state `error`: null or Some(message)
    procs,          \* the invocations of checkAuth/login/logout of this page load
    last,           \* history: the handler that took the latest step, and the answer it consumed
    notAdminSince,  \* history: a hydration met a user that is no admin, and no login
                    \* has stored tokens since
    view,           \* the state of the page component under study (Users, Commissions),
                    \* null where the session guard is studied on its own
    leftover        \* history, kept where page loads are followed one after another: the
                    \* token pair of a login whose profile fetch failed, while the store
                    \* is as that login left it; null otherwise

vars == <<localStorage, user, isLoading, error, procs, last, notAdminSince, view, leftover>>

\* Number of login/logout invocations followed per page load.
MaxOps == 2

---------------------------------------------------------------------------
(* JavaScript values *)

\* null / undefined, and a present value
null == <<>>
Some(v) == <<v>>

\* !!x for a nullable string: null and "" are falsy
Truthy(o) == o # null /\ o[1] # ""

\* a || b on strings, an undefined or missing string being ""
OrElse(a, b) == IF a # "" THEN a ELSE b

\* the outcome of a call: a returned value or a thrown error
Return(v) == [ok |-> TRUE, value |-> v]
Throw(e) == [ok |-> FALSE, error |-> e]

---------------------------------------------------------------------------
(* Token store: lib/api, "Token management" *)

ACCESS == "admin_accessToken"
REFRESH == "admin_refreshToken"

getItem(ls, k) == IF k \in DOMAIN ls THEN Some(ls[k]) ELSE null
setItem(ls, k, v) == [x \in DOMAIN ls \cup {k} |-> IF x = k THEN v ELSE ls[x]]
removeItem(ls, k) == [x \in DOMAIN ls \ {k} |-> ls[x]]

\* faulty variant: the two keys are exchanged
setTokens_swapped(ls, accessToken, refreshToken) ==
    setItem(setItem(ls, REFRESH, accessToken), ACCESS, refreshToken)

setTokens(ls, accessToken, refreshToken) ==
    setItem(setItem(ls, ACCESS, accessToken), REFRESH, refreshToken)

getAccessToken(ls) == getItem(ls, ACCESS)

\* faulty variant: the refresh token is left behind
clearTokens_accessOnly(ls) == removeItem(ls, ACCESS)

clearTokens(ls) == removeItem(removeItem(ls, ACCESS), REFRESH)

\* faulty variant: any stored string counts, the empty one too
api_isAuthenticated_present(ls) == getAccessToken(ls) # null

api_isAuthenticated(ls) == Truthy(getAccessToken(ls))

---------------------------------------------------------------------------
(* What the backend and the transport can answer *)

UserRole == {"CUSTOMER", "AGENT", "ADMIN"}

\* the full record of GET /auth/me and the summary inside the login response
User == [id : {"u1"}, role : UserRole, provider : {"local"}]
UserSummary == [id : {"u1"}, role : UserRole]

\* token pairs the backend may issue; the store may hold an older pair at startup
IssuedTokens == {<<"a1", "r1">>, <<"", "r2">>}
StoredAtStartup == {<<"a0", "r0">>} \cup IssuedTokens

AuthResponse ==
    {[accessToken |-> t[1], refreshToken |-> t[2], user |-> u] :
        t \in IssuedTokens, u \in UserSummary}

\* a settled fetch + json: a status and a body, or a rejection of either promise
HttpOk(data) == [status |-> 200, data |-> data]
HttpErrors ==
    {[status |-> 401, data |-> [message |-> "Invalid credentials"]],
     [status |-> 500, data |-> [message |-> ""]]}
TransportErrors ==
    {[thrown |-> [name |-> "TypeError", message |-> "Failed to fetch"]],
     [thrown |-> [name |-> "Error", message |-> ""]]}
Failures == HttpErrors \cup TransportErrors

LoginAnswers == {HttpOk(d) : d \in AuthResponse} \cup Failures
MeAnswers == {HttpOk(d) : d \in User} \cup Failures
LogoutAnswers == {HttpOk([message |-> "Logged out"])} \cup Failures

---------------------------------------------------------------------------
(* ApiClient *)

\* faulty variant: the message of the response body is dropped
request_genericMessage(answer) ==
    IF "thrown" \in DOMAIN answer
    THEN Throw(answer.thrown)
    ELSE IF ~(answer.status \in 200..299)
         THEN Throw([message |-> "An error occurred", statusCode |-> answer.status])
         ELSE Return(answer.data)

\* ApiClient.request, from the settled fetch on
request(answer) ==
    IF "thrown" \in DOMAIN answer
    THEN Throw(answer.thrown)
    ELSE IF ~(answer.status \in 200..299)
         THEN Throw([message |-> OrElse(answer.data.message, "An error occurred"),
                     statusCode |-> answer.status])
         ELSE Return(answer.data)

\* faulty variant: the request is sent whether or not a token is stored
authenticatedRequest_unchecked(ls, endpoint) ==
    LET accessToken == getAccessToken(ls) IN
    Return([endpoint |-> endpoint,
            Authorization |-> <<"Bearer", IF accessToken = null THEN "null" ELSE accessToken[1]>>])

\* ApiClient.authenticatedRequest up to the fetch: the request sent, or the local 401
authenticatedRequest(ls, endpoint) ==
    LET accessToken == getAccessToken(ls) IN
    IF ~Truthy(accessToken)
    THEN Throw([message |-> "Not authenticated", statusCode |-> 401])
    ELSE Return([endpoint |-> endpoint, Authorization |-> <<"Bearer", accessToken[1]>>])

\* ApiClient.login after its request settled: the outcome and the storage it leaves
api_login(ls, answer) ==
    LET response == request(answer) IN
    IF response.ok
    THEN [result |-> response,
          ls |-> setTokens(ls, response.value.accessToken, response.value.refreshToken)]
    ELSE [result |-> response, ls |-> ls]

\* the authenticated operations up to their fetch
api_getCurrentUser(ls) == authenticatedRequest(ls, "/auth/me")
api_logoutRequest(ls) == authenticatedRequest(ls, "/auth/logout")
api_getUsers(ls) == authenticatedRequest(ls, "/admin/users")
api_updateUserRole(ls) == authenticatedRequest(ls, "/admin/users/:id/role")
api_getCommissions(ls) == authenticatedRequest(ls, "/admin/commissions")
api_createCommission(ls) == authenticatedRequest(ls, "/admin/commissions")
api_updateCommission(ls) == authenticatedRequest(ls, "/admin/commissions/:id")
api_deleteCommission(ls) == authenticatedRequest(ls, "/admin/commissions/:id")

---------------------------------------------------------------------------
(* Invocations *)

\* One invocation of an async function of AuthProvider.
\*   pc       where it is suspended: "init" (not yet run), the await, or "done"
\*   branch   the exit path it took, "" until done
\*   calls    the requests it handed to fetch
\*   got      the values its awaits returned that it still holds (its locals)
\*   nav      the paths it passed to navigate
\*   rejected whether the promise it returned to its caller rejected
\*   solo     it started in the settled Anonymous state and no other invocation
\*            has acted since
Proc(kind, pc, calls, solo) ==
    [kind |-> kind, pc |-> pc, branch |-> "", calls |-> calls, got |-> <<>>,
     nav |-> <<>>, rejected |-> FALSE, solo |-> solo]

InFlight(p) == procs[p].pc \notin {"init", "done"}
Settled == \A p \in DOMAIN procs : procs[p].pc = "done"

\* AuthProvider: isAuthenticated = !!user
isAuthenticated == user # null

\* procs with invocation p replaced (or added, when p is new); every other
\* invocation in flight is no longer solo
Step(p, rec) ==
    [q \in DOMAIN procs \cup {p} |->
        IF q = p THEN rec
        ELSE IF InFlight(q) THEN [procs[q] EXCEPT !.solo = FALSE] ELSE procs[q]]

Received(rec, value) == [rec EXCEPT !.got = Append(@, value)]
Sent(rec, pc, req) == [rec EXCEPT !.pc = pc, !.calls = Append(@, req)]
Navigated(rec, path) == [rec EXCEPT !.nav = Append(@, path)]

\* the async function returns (its promise resolves) or lets an error out (it rejects)
Resolve(rec, branch) ==
    [rec EXCEPT !.pc = "done", !.branch = branch, !.rejected = FALSE, !.got = <<>>]
Reject(rec, branch) ==
    [rec EXCEPT !.pc = "done", !.branch = branch, !.rejected = TRUE, !.got = <<>>]

\* values of last
Ran(op) == [op |-> op, answer |-> null]
Got(op, answer) == [op |-> op, answer |-> Some(answer)]

Init ==
    /\ localStorage \in {<<>>} \cup {setTokens(<<>>, t[1], t[2]) : t \in StoredAtStartup}
    /\ user = null
    /\ isLoading = TRUE
    /\ error = null
    /\ procs = <<Proc("checkAuth", "init", <<>>, FALSE)>>
    /\ last = Ran("mount")
    /\ notAdminSince = FALSE
    /\ view = null
    /\ leftover = null

---------------------------------------------------------------------------
(* AuthProvider.checkAuth: the startup hydration, invocation 1 *)

\* faulty variant: the presence check does not stop the fetch
checkAuthNoToken_fetches(rec) ==
    /\ procs' = Step(1, Sent(rec, "awaitMe", [endpoint |-> "/auth/me"]))
    /\ UNCHANGED <<localStorage, user, isLoading, notAdminSince>>

\* no usable token: settle at once
checkAuthNoToken(rec) ==
    /\ user' = null
    /\ isLoading' = FALSE
    /\ procs' = Step(1, Resolve(rec, "notoken"))
    /\ UNCHANGED <<localStorage, notAdminSince>>

\* faulty variant: the tokens of the non-admin are kept
checkAuthNotAdmin_keepsTokens(rec) ==
    /\ user' = null
    /\ isLoading' = FALSE
    /\ procs' = Step(1, Resolve(rec, "notadmin"))
    /\ notAdminSince' = TRUE
    /\ UNCHANGED localStorage

\* getCurrentUser returned a user that is no admin
checkAuthNotAdmin(rec) ==
    /\ localStorage' = clearTokens(localStorage)
    /\ user' = null
    /\ isLoading' = FALSE
    /\ procs' = Step(1, Resolve(rec, "notadmin"))
    /\ notAdminSince' = TRUE

\* getCurrentUser returned an admin
checkAuthAdmin(rec, currentUser) ==
    /\ user' = Some(currentUser)
    /\ isLoading' = FALSE
    /\ procs' = Step(1, Resolve(rec, "admin"))
    /\ UNCHANGED <<localStorage, notAdminSince>>

\* faulty variant: setIsLoading(false) sits after the try instead of in a finally
checkAuthCatch_noFinally(rec) ==
    /\ localStorage' = clearTokens(localStorage)
    /\ user' = null
    /\ procs' = Step(1, Resolve(rec, "failed"))
    /\ UNCHANGED <<isLoading, notAdminSince>>

\* catch { ... } finally { ... }
checkAuthCatch(rec) ==
    /\ localStorage' = clearTokens(localStorage)
    /\ user' = null
    /\ isLoading' = FALSE
    /\ procs' = Step(1, Resolve(rec, "failed"))
    /\ UNCHANGED notAdminSince

\* the code after `await api.getCurrentUser()` settled with outcome currentUser
checkAuthSettle(rec, currentUser) ==
    IF ~currentUser.ok THEN checkAuthCatch(rec)
    ELSE IF currentUser.value.role # "ADMIN" THEN checkAuthNotAdmin(rec)
    ELSE checkAuthAdmin(rec, currentUser.value)

\* useEffect(() => { checkAuth() }): the synchronous part, up to the fetch
checkAuth ==
    /\ procs[1].pc = "init"
    /\ IF ~api_isAuthenticated(localStorage)
       THEN checkAuthNoToken(procs[1])
       ELSE LET req == authenticatedRequest(localStorage, "/auth/me") IN
            IF req.ok
            THEN /\ procs' = Step(1, Sent(procs[1], "awaitMe", req.value))
                 /\ UNCHANGED <<localStorage, user, isLoading, notAdminSince>>
            ELSE checkAuthSettle(procs[1], req)
    /\ last' = Ran("checkAuth")
    /\ UNCHANGED error

\* the answer to GET /auth/me arrives
checkAuthResume ==
    /\ procs[1].kind = "checkAuth"
    /\ procs[1].pc = "awaitMe"
    /\ \E answer \in MeAnswers :
        /\ checkAuthSettle(procs[1], request(answer))
        /\ last' = Got("checkAuth", answer)
    /\ UNCHANGED error

---------------------------------------------------------------------------
(* AuthProvider.login *)

CanInvoke == procs[1].pc # "init" /\ Len(procs) < 1 + MaxOps

StartsSolo == Settled /\ user = null /\ isLoading = FALSE

\* login(email, password) up to `await api.login(...)`: the request is with fetch
login ==
    /\ CanInvoke
    /\ error' = null
    /\ isLoading' = TRUE
    /\ procs' = Step(Len(procs) + 1,
                     Proc("login", "awaitLogin", <<[endpoint |-> "/auth/login"]>>, StartsSolo))
    /\ last' = Ran("login")
    /\ UNCHANGED <<user, localStorage, notAdminSince>>

\* faulty variant: no catch, the error leaves login through its finally
loginCatch_rethrows(p, rec, err, ls) ==
    /\ isLoading' = FALSE
    /\ localStorage' = ls
    /\ procs' = Step(p, Reject(rec, "failed"))
    /\ UNCHANGED <<user, error>>

\* faulty variant: the error's own message is never shown
loginCatch_genericMessage(p, rec, err, ls) ==
    /\ error' = Some("Login failed.")
    /\ isLoading' = FALSE
    /\ localStorage' = ls
    /\ procs' = Step(p, Resolve(rec, "failed"))
    /\ UNCHANGED user

\* faulty variant: the catch clears the tokens, as checkAuth's catch does
loginCatch_clearsTokens(p, rec, err, ls) ==
    /\ error' = Some(OrElse(err.message, "Login failed."))
    /\ isLoading' = FALSE
    /\ localStorage' = clearTokens(ls)
    /\ procs' = Step(p, Resolve(rec, "failed"))
    /\ UNCHANGED user

\* catch (err) { ... } finally { ... }, the storage being ls by then
loginCatch(p, rec, err, ls) ==
    /\ error' = Some(OrElse(err.message, "Login failed."))
    /\ isLoading' = FALSE
    /\ localStorage' = ls
    /\ procs' = Step(p, Resolve(rec, "failed"))
    /\ UNCHANGED user

\* faulty variant: the tokens of the non-admin are kept
loginNotAdmin_keepsTokens(p, rec, ls) ==
    /\ localStorage' = ls
    /\ error' = Some("Access denied. Admin privileges required.")
    /\ isLoading' = FALSE
    /\ procs' = Step(p, Resolve(rec, "notadmin"))
    /\ UNCHANGED user

\* the login response names a user that is no admin
loginNotAdmin(p, rec, ls) ==
    /\ localStorage' = clearTokens(ls)
    /\ error' = Some("Access denied. Admin privileges required.")
    /\ isLoading' = FALSE
    /\ procs' = Step(p, Resolve(rec, "notadmin"))
    /\ UNCHANGED user

\* the login response names an admin: const fullUser = await api.getCurrentUser()
loginGetCurrentUser(p, rec, ls) ==
    LET req == authenticatedRequest(ls, "/auth/me") IN
    IF req.ok
    THEN /\ localStorage' = ls
         /\ procs' = Step(p, Sent(rec, "awaitMe", req.value))
         /\ UNCHANGED <<user, isLoading, error>>
    ELSE loginCatch(p, rec, req.error, ls)

\* the code after `await api.login(email, password)` settled
loginSettle(p, rec, response, ls) ==
    IF ~response.ok THEN loginCatch(p, rec, response.error, ls)
    ELSE IF response.value.user.role # "ADMIN" THEN loginNotAdmin(p, rec, ls)
    ELSE loginGetCurrentUser(p, Received(rec, response.value), ls)

\* the answer to POST /auth/login arrives
loginResume(p) ==
    /\ procs[p].kind = "login"
    /\ procs[p].pc = "awaitLogin"
    /\ \E answer \in LoginAnswers :
        LET r == api_login(localStorage, answer) IN
        /\ loginSettle(p, procs[p], r.result, r.ls)
        /\ notAdminSince' = (notAdminSince /\ ~r.result.ok)
        /\ last' = Got("login", answer)

\* faulty variant: the summary of the login response becomes the user
loginAdmin_usesSummary(p, rec, fullUser) ==
    /\ user' = Some(rec.got[1].user)
    /\ isLoading' = FALSE
    /\ procs' = Step(p, Resolve(Navigated(rec, "/"), "admin"))
    /\ UNCHANGED <<localStorage, error>>

\* faulty variant: a login that other operations overtook drops its response
loginAdmin_guarded(p, rec, fullUser) ==
    /\ user' = IF rec.solo THEN Some(fullUser) ELSE user
    /\ isLoading' = FALSE
    /\ procs' = Step(p, Resolve(IF rec.solo THEN Navigated(rec, "/") ELSE rec, "admin"))
    /\ UNCHANGED <<localStorage, error>>

\* setUser(fullUser); navigate('/'); finally
loginAdmin(p, rec, fullUser) ==
    /\ user' = Some(fullUser)
    /\ isLoading' = FALSE
    /\ procs' = Step(p, Resolve(Navigated(rec, "/"), "admin"))
    /\ UNCHANGED <<localStorage, error>>

\* the answer to login's GET /auth/me arrives
loginResumeMe(p) ==
    /\ procs[p].kind = "login"
    /\ procs[p].pc = "awaitMe"
    /\ \E answer \in MeAnswers :
        LET fullUser == request(answer) IN
        /\ IF fullUser.ok
           THEN loginAdmin(p, procs[p], fullUser.value)
           ELSE loginCatch(p, procs[p], fullUser.error, localStorage)
        /\ last' = Got("login", answer)
    /\ UNCHANGED notAdminSince

---------------------------------------------------------------------------
(* AuthProvider.logout, ApiClient.logout *)

\* faulty variant: the reset follows the await instead of sitting in a finally
logoutFinally_afterAwait(p, rec, outcome, branch) ==
    /\ localStorage' = clearTokens(localStorage)
    /\ user' = IF outcome.ok THEN null ELSE user
    /\ procs' = Step(p, IF outcome.ok THEN Resolve(Navigated(rec, "/login"), branch)
                        ELSE Reject(rec, branch))
    /\ UNCHANGED <<isLoading, error>>

\* faulty variant: the tokens are cleared after the await, not in a finally
logoutFinally_clearsOnSuccess(p, rec, outcome, branch) ==
    /\ localStorage' = IF outcome.ok THEN clearTokens(localStorage) ELSE localStorage
    /\ user' = null
    /\ procs' = Step(p, IF outcome.ok THEN Resolve(Navigated(rec, "/login"), branch)
                        ELSE Reject(Navigated(rec, "/login"), branch))
    /\ UNCHANGED <<isLoading, error>>

\* both finally blocks once the request settled with outcome: clearTokens(), then
\* setUser(null) and navigate('/login'); no catch is on the way, so a failure of
\* the request reaches the caller of logout
logoutFinally(p, rec, outcome, branch) ==
    /\ localStorage' = clearTokens(localStorage)
    /\ user' = null
    /\ procs' = Step(p, IF outcome.ok THEN Resolve(Navigated(rec, "/login"), branch)
                        ELSE Reject(Navigated(rec, "/login"), branch))
    /\ UNCHANGED <<isLoading, error>>

\* logout() up to `await this.authenticatedRequest('/auth/logout')`
logout ==
    /\ CanInvoke
    /\ LET req == authenticatedRequest(localStorage, "/auth/logout")
           p == Len(procs) + 1
           rec == Proc("logout", "init", <<>>, StartsSolo)
       IN  IF req.ok
           THEN /\ procs' = Step(p, Sent(rec, "awaitLogout", req.value))
                /\ UNCHANGED <<localStorage, user, isLoading, error>>
           ELSE logoutFinally(p, rec, req, "notoken")
    /\ last' = Ran("logout")
    /\ UNCHANGED notAdminSince

\* the answer to POST /auth/logout arrives
logoutResume(p) ==
    /\ procs[p].kind = "logout"
    /\ procs[p].pc = "awaitLogout"
    /\ \E answer \in LogoutAnswers :
        LET outcome == request(answer) IN
        /\ logoutFinally(p, procs[p], outcome, IF outcome.ok THEN "ok" ELSE "failed")
        /\ last' = Got("logout", answer)
    /\ UNCHANGED notAdminSince

---------------------------------------------------------------------------
(* AuthProvider.clearError, and the page being loaded again *)

\* faulty variant: the loading flag is reset along with the error
clearError_resetsLoading ==
    /\ error' = null
    /\ isLoading' = FALSE
    /\ last' = IF error # null THEN Ran("clearError") ELSE Ran("clearError (none set)")
    /\ UNCHANGED <<localStorage, user, procs, notAdminSince>>

clearError ==
    /\ error' = null
    /\ last' = IF error # null THEN Ran("clearError") ELSE Ran("clearError (none set)")
    /\ UNCHANGED <<localStorage, user, isLoading, procs, notAdminSince>>

\* A reload discards the JavaScript state with every pending continuation and
\* mounts a fresh AuthProvider; only localStorage survives.
Reload ==
    /\ user' = null
    /\ isLoading' = TRUE
    /\ error' = null
    /\ procs' = <<Proc("checkAuth", "init", <<>>, FALSE)>>
    /\ last' = Ran("mount")
    /\ UNCHANGED <<localStorage, notAdminSince>>

Next ==
    \/ checkAuth /\ UNCHANGED <<view, leftover>>
    \/ checkAuthResume /\ UNCHANGED <<view, leftover>>
    \/ login /\ UNCHANGED <<view, leftover>>
    \/ \E p \in DOMAIN procs : loginResume(p) /\ UNCHANGED <<view, leftover>>
    \/ \E p \in DOMAIN procs : loginResumeMe(p) /\ UNCHANGED <<view, leftover>>
    \/ logout /\ UNCHANGED <<view, leftover>>
    \/ \E p \in DOMAIN procs : logoutResume(p) /\ UNCHANGED <<view, leftover>>
    \/ clearError /\ UNCHANGED <<view, leftover>>
    \/ Reload /\ UNCHANGED <<view, leftover>>

Spec == Init /\ [][Next]_vars

---------------------------------------------------------------------------
(* One page load in which every network call issued eventually returns *)

\* the operations invoked after the hydration, where termination is studied
MaxLive == 1

\* the invocations one page load can hold
Invocations == 1..(1 + MaxLive)

\* room for one more invocation
LiveCanInvoke == Len(procs) < 1 + MaxLive

LiveNext ==
    \/ checkAuth /\ UNCHANGED <<view, leftover>>
    \/ checkAuthResume /\ UNCHANGED <<view, leftover>>
    \/ LiveCanInvoke /\ login /\ UNCHANGED <<view, leftover>>
    \/ \E p \in DOMAIN procs : loginResume(p) /\ UNCHANGED <<view, leftover>>
    \/ \E p \in DOMAIN procs : loginResumeMe(p) /\ UNCHANGED <<view, leftover>>
    \/ LiveCanInvoke /\ logout /\ UNCHANGED <<view, leftover>>
    \/ \E p \in DOMAIN procs : logoutResume(p) /\ UNCHANGED <<view, leftover>>
    \/ clearError /\ UNCHANGED <<view, leftover>>

\* the effect runs once mounted; a fetch that was issued settles
Fairness ==
    /\ WF_vars(checkAuth /\ UNCHANGED <<view, leftover>>)
    /\ WF_vars(checkAuthResume /\ UNCHANGED <<view, leftover>>)
    /\ \A p \in Invocations :
        /\ WF_vars(p \in DOMAIN procs /\ loginResume(p) /\ UNCHANGED <<view, leftover>>)
        /\ WF_vars(p \in DOMAIN procs /\ loginResumeMe(p) /\ UNCHANGED <<view, leftover>>)
        /\ WF_vars(p \in DOMAIN procs /\ logoutResume(p) /\ UNCHANGED <<view, leftover>>)

LiveSpec == Init /\ [][LiveNext]_vars /\ Fairness

---------------------------------------------------------------------------
(* Route gates: what a gate renders for the guard's isLoading, isAuthenticated *)

Placeholder == [render |-> "Loading..."]
Navigate(to) == [navigate |-> to]

\* faulty variant: the redirect is decided before hydration has settled
LoginRoute_noPlaceholder(loading, authenticated) ==
    IF authenticated THEN Navigate("/") ELSE [render |-> "Login"]

\* App.tsx, LoginRoute
LoginRoute(loading, authenticated) ==
    IF loading THEN Placeholder
    ELSE IF authenticated THEN Navigate("/")
    ELSE [render |-> "Login"]

\* the wrapper of the protected routes, as section 4.4 of the specification
\* describes it (components/ProtectedRoute is not among the sources)
ProtectedRoute(loading, authenticated) ==
    IF loading THEN Placeholder
    ELSE IF ~authenticated THEN Navigate("/login")
    ELSE [render |-> "children"]

---------------------------------------------------------------------------
(* The ApiClient on its own: its methods called in any order on any store *)

TokenStrings == {"", "a0", "a1", "r1"}

AuthenticatedOps ==
    {"getCurrentUser", "logout", "getUsers", "updateUserRole", "getCommissions",
     "createCommission", "updateCommission", "deleteCommission"}

\* what method op hands to fetch, or the error it throws before
ApiRequest(op, ls) ==
    CASE op = "getCurrentUser" -> api_getCurrentUser(ls)
      [] op = "logout" -> api_logoutRequest(ls)
      [] op = "getUsers" -> api_getUsers(ls)
      [] op = "updateUserRole" -> api_updateUserRole(ls)
      [] op = "getCommissions" -> api_getCommissions(ls)
      [] op = "createCommission" -> api_createCommission(ls)
      [] op = "updateCommission" -> api_updateCommission(ls)
      [] op = "deleteCommission" -> api_deleteCommission(ls)

\* value of last: the method called, its arguments, what it returned (for an
\* authenticated operation: what it handed to fetch or threw), and the call before
Called(op, args, result) ==
    [op |-> op, args |-> args, result |-> result,
     prev |-> [op |-> last.op, args |-> IF "args" \in DOMAIN last THEN last.args ELSE <<>>]]

ApiInit ==
    /\ localStorage \in {<<>>} \cup {setTokens(<<>>, a, r) : a, r \in TokenStrings}
    /\ last = Ran("mount")
    /\ user = null
    /\ isLoading = TRUE
    /\ error = null
    /\ procs = <<>>
    /\ notAdminSince = FALSE
    /\ view = null
    /\ leftover = null

\* the session guard is not mounted
ApiFrame == UNCHANGED <<user, isLoading, error, procs, notAdminSince, view, leftover>>

ApiSetTokens ==
    \E a, r \in TokenStrings :
        /\ localStorage' = setTokens(localStorage, a, r)
        /\ last' = Called("setTokens", <<a, r>>, null)
        /\ ApiFrame

ApiGetAccessToken ==
    /\ last' = Called("getAccessToken", <<>>, getAccessToken(localStorage))
    /\ UNCHANGED localStorage
    /\ ApiFrame

ApiClearTokens ==
    /\ localStorage' = clearTokens(localStorage)
    /\ last' = Called("clearTokens", <<>>, null)
    /\ ApiFrame

ApiIsAuthenticated ==
    /\ last' = Called("isAuthenticated", <<>>, Some(api_isAuthenticated(localStorage)))
    /\ UNCHANGED localStorage
    /\ ApiFrame

ApiAuthenticated ==
    \E op \in AuthenticatedOps :
        /\ last' = Called(op, <<>>, Some(ApiRequest(op, localStorage)))
        /\ UNCHANGED localStorage
        /\ ApiFrame

ApiNext ==
    \/ ApiSetTokens
    \/ ApiGetAccessToken
    \/ ApiClearTokens
    \/ ApiIsAuthenticated
    \/ ApiAuthenticated

ApiSpec == ApiInit /\ [][ApiNext]_vars

---------------------------------------------------------------------------
(* Vocabulary of the properties *)

NoTokens(ls) == getItem(ls, ACCESS) = null /\ getItem(ls, REFRESH) = null

\* this step invokes p, an invocation of kind
Starts(p, kind) ==
    p \notin DOMAIN procs /\ p \in DOMAIN procs' /\ procs'[p].kind = kind

\* this step resumes invocation p, suspended at pc, with the answer last'.answer[1]
Resumes(p, kind, pc) ==
    /\ p \in DOMAIN procs /\ procs[p].kind = kind /\ procs[p].pc = pc
    /\ last'.op = kind /\ last'.answer # null
    /\ p \in DOMAIN procs' /\ procs'[p].pc # pc

\* this step completes invocation p
Completes(p, kind) ==
    /\ p \in DOMAIN procs' /\ procs'[p].kind = kind /\ procs'[p].pc = "done"
    /\ (p \in DOMAIN procs => procs[p].pc # "done")

Is2xx(answer) == "status" \in DOMAIN answer /\ answer.status \in 200..299
IsNon2xx(answer) == "status" \in DOMAIN answer /\ answer.status \notin 200..299

---------------------------------------------------------------------------
(* Login *)

\* C1: a login started from the settled Anonymous state and run with no other
\* invocation acting meanwhile, whose login call returned an ADMIN summary and
\* whose getCurrentUser call succeeds, ends with user = the record getCurrentUser
\* returned (not the summary of the login response), isLoading = false,
\* error = null, the token pair of the login response in the store, and
\* navigate('/') called exactly once.
C1_LoginAdmin ==
    [][\A p \in DOMAIN procs :
        (Resumes(p, "login", "awaitMe") /\ Is2xx(last'.answer[1]) /\ procs[p].solo) =>
            LET response == procs[p].got[1]
                fullUser == last'.answer[1].data
            IN  /\ response.user.role = "ADMIN"
                /\ procs'[p].pc = "done"
                /\ user' = Some(fullUser)
                /\ user' # Some(response.user)
                /\ isLoading' = FALSE
                /\ error' = null
                /\ getItem(localStorage', ACCESS) = Some(response.accessToken)
                /\ getItem(localStorage', REFRESH) = Some(response.refreshToken)
                /\ procs'[p].nav = <<"/">>]_vars

C1_Witness ==
    /\ Settled /\ Len(procs) = 2
    /\ procs[2].kind = "login" /\ procs[2].branch = "admin" /\ procs[2].solo
    /\ last.op = "login" /\ last.answer # null /\ Is2xx(last.answer[1])
    /\ user = Some(last.answer[1].data)
    /\ isLoading = FALSE /\ error = null
    /\ getItem(localStorage, ACCESS) = Some("a1")
    /\ procs[2].nav = <<"/">>

\* C2: when the login call succeeds for a user whose role is CUSTOMER or AGENT,
\* the step that handles the response removes both tokens, leaves user as it was
\* (null, for a login run alone from the Anonymous state), sets error to
\* "Access denied. Admin privileges required.", sets isLoading = false and ends
\* the login, which has issued the login request only and has not navigated.
C2_LoginNotAdmin ==
    [][\A p \in DOMAIN procs :
        (/\ Resumes(p, "login", "awaitLogin")
         /\ Is2xx(last'.answer[1])
         /\ last'.answer[1].data.user.role \in {"CUSTOMER", "AGENT"}) =>
            /\ NoTokens(localStorage')
            /\ user' = user
            /\ procs[p].solo => user' = null
            /\ error' = Some("Access denied. Admin privileges required.")
            /\ isLoading' = FALSE
            /\ procs'[p].pc = "done"
            /\ procs'[p].calls = <<[endpoint |-> "/auth/login"]>>
            /\ procs'[p].nav = <<>>]_vars

C2_Witness ==
    /\ Settled /\ Len(procs) = 2
    /\ procs[2].kind = "login" /\ procs[2].branch = "notadmin" /\ procs[2].solo
    /\ last.op = "login" /\ last.answer # null /\ Is2xx(last.answer[1])
    /\ last.answer[1].data.user.role = "AGENT"
    /\ last.answer[1].data.accessToken = "a1"
    /\ NoTokens(localStorage)
    /\ user = null
    /\ error = Some("Access denied. Admin privileges required.")

\* C3: in every reachable state user is null or a record whose role is ADMIN.
C3_UserIsAdmin == user = null \/ user[1].role = "ADMIN"

\* C7: when the login call is answered non-2xx with a message, the step that
\* handles the answer sets error to that message verbatim, leaves user as it was
\* (null, for a login run alone from the Anonymous state), sets isLoading = false
\* and leaves localStorage unchanged; the step that starts a login leaves
\* localStorage unchanged too, so that login writes no token at all.
C7_LoginRejected ==
    [][/\ \A p \in DOMAIN procs' : Starts(p, "login") => localStorage' = localStorage
       /\ \A p \in DOMAIN procs :
            (/\ Resumes(p, "login", "awaitLogin")
             /\ IsNon2xx(last'.answer[1])
             /\ last'.answer[1].data.message # "") =>
                /\ error' = Some(last'.answer[1].data.message)
                /\ user' = user
                /\ procs[p].solo => user' = null
                /\ isLoading' = FALSE
                /\ localStorage' = localStorage
                /\ procs'[p].pc = "done"
                /\ procs'[p].calls = <<[endpoint |-> "/auth/login"]>>]_vars

C7_Witness ==
    /\ Settled /\ Len(procs) = 2
    /\ procs[2].kind = "login" /\ procs[2].solo
    /\ last = Got("login", [status |-> 401, data |-> [message |-> "Invalid credentials"]])
    /\ error = Some("Invalid credentials")
    /\ user = null
    /\ isLoading = FALSE
    /\ localStorage = <<>>

---------------------------------------------------------------------------
(* Hydration *)

\* C4: a hydration that finds no access token in the store settles in its
\* first step: user = null, isLoading = false, nothing handed to fetch, the
\* store and error untouched.
C4_HydrateNoToken ==
    [][(/\ procs[1].pc = "init" /\ procs'[1].pc # "init"
        /\ getAccessToken(localStorage) = null) =>
            /\ procs'[1].pc = "done"
            /\ procs'[1].calls = <<>>
            /\ user' = null
            /\ isLoading' = FALSE
            /\ localStorage' = localStorage
            /\ error' = error]_vars

C4_Witness ==
    /\ procs = <<Resolve(Proc("checkAuth", "init", <<>>, FALSE), "notoken")>>
    /\ last = Ran("checkAuth")
    /\ localStorage = <<>>
    /\ user = null
    /\ isLoading = FALSE

\* C5: whenever the hydration's getCurrentUser fails (a non-2xx answer, a
\* transport failure, or the local 401), the step that handles the failure
\* removes both tokens and leaves user = null and isLoading = false, the
\* hydration being done.
C5_HydrateFailed ==
    [][/\ (Resumes(1, "checkAuth", "awaitMe") /\ last'.answer[1] \in Failures) =>
            /\ procs'[1].pc = "done"
            /\ NoTokens(localStorage')
            /\ user' = null
            /\ isLoading' = FALSE
       /\ (Completes(1, "checkAuth") /\ procs'[1].branch = "failed") =>
            /\ NoTokens(localStorage')
            /\ user' = null
            /\ isLoading' = FALSE]_vars

C5_Witness ==
    /\ procs[1].kind = "checkAuth" /\ procs[1].pc = "done"
    /\ procs[1].calls = <<[endpoint |-> "/auth/me", Authorization |-> <<"Bearer", "a0">>]>>
    /\ last.op = "checkAuth" /\ last.answer # null /\ last.answer[1] \in TransportErrors
    /\ NoTokens(localStorage)
    /\ user = null
    /\ isLoading = FALSE

\* C6: when the hydration's getCurrentUser returns a user whose role is not ADMIN,
\* the step that handles it removes both tokens and leaves user = null and
\* isLoading = false; and as long as no login has stored tokens since, every
\* later hydration settles in its first step as in the no-token case: user = null,
\* isLoading = false, nothing handed to fetch.
C6_HydrateNotAdmin ==
    [][/\ (/\ Resumes(1, "checkAuth", "awaitMe")
           /\ Is2xx(last'.answer[1])
           /\ last'.answer[1].data.role # "ADMIN") =>
                /\ procs'[1].pc = "done"
                /\ NoTokens(localStorage')
                /\ user' = null
                /\ isLoading' = FALSE
       /\ (procs[1].pc = "init" /\ procs'[1].pc # "init" /\ notAdminSince) =>
                /\ getAccessToken(localStorage) = null
                /\ procs'[1].pc = "done"
                /\ procs'[1].calls = <<>>
                /\ user' = null
                /\ isLoading' = FALSE
                /\ localStorage' = localStorage]_vars

\* the hydration of a page loaded after one whose hydration met a non-admin
C6_Witness ==
    /\ notAdminSince
    /\ procs = <<Resolve(Proc("checkAuth", "init", <<>>, FALSE), "notoken")>>
    /\ last = Ran("checkAuth")
    /\ user = null
    /\ isLoading = FALSE

---------------------------------------------------------------------------
(* Logout, failures, clearError *)

\* C8: every step that completes a logout, whether the remote call succeeded,
\* failed or was never made for want of a token, leaves user = null and has
\* called navigate('/login'); and every answer to the remote call completes it.
C8_LogoutAlwaysResets ==
    [][/\ \A p \in DOMAIN procs' : Completes(p, "logout") =>
            /\ user' = null
            /\ procs'[p].nav = <<"/login">>
       /\ \A p \in DOMAIN procs : Resumes(p, "logout", "awaitLogout") =>
            procs'[p].pc = "done"
       /\ \A p \in DOMAIN procs' :
            (Starts(p, "logout") /\ ~Truthy(getAccessToken(localStorage))) =>
                procs'[p].pc = "done" /\ procs'[p].calls = <<>>]_vars

\* a logout of an authenticated admin whose remote call failed
C8_Witness ==
    /\ Len(procs) = 2
    /\ procs[1].branch = "admin"
    /\ procs[2].kind = "logout" /\ procs[2].pc = "done" /\ procs[2].rejected
    /\ last.op = "logout" /\ last.answer # null /\ last.answer[1] \in Failures
    /\ user = null
    /\ procs[2].nav = <<"/login">>

\* C9: the promise of checkAuth and of login never rejects; a failed answer to
\* the hydration's call completes it with user = null and error untouched, and a
\* failed answer to either call of a login completes it with error set.
C9_NoFailureEscapes ==
    [][/\ \A p \in DOMAIN procs' :
            (Completes(p, "checkAuth") \/ Completes(p, "login")) => ~procs'[p].rejected
       /\ (Resumes(1, "checkAuth", "awaitMe") /\ last'.answer[1] \in Failures) =>
            /\ procs'[1].pc = "done"
            /\ user' = null
            /\ error' = error
       /\ \A p \in DOMAIN procs :
            (/\ Resumes(p, "login", "awaitLogin") \/ Resumes(p, "login", "awaitMe")
             /\ last'.answer[1] \in Failures) =>
                /\ procs'[p].pc = "done"
                /\ error' # null]_vars

\* a login whose profile fetch failed at the transport
C9_Witness ==
    /\ Len(procs) = 2
    /\ procs[2].kind = "login" /\ procs[2].pc = "done" /\ ~procs[2].rejected
    /\ Len(procs[2].calls) = 2
    /\ last.op = "login" /\ last.answer # null /\ last.answer[1] \in TransportErrors
    /\ error # null

\* C10: a step of clearError, in whatever state, sets error to null and leaves
\* user, isLoading, localStorage and every invocation in flight as they were.
C10_ClearErrorFrame ==
    [][last'.op \in {"clearError", "clearError (none set)"} =>
            /\ error' = null
            /\ user' = user
            /\ isLoading' = isLoading
            /\ localStorage' = localStorage
            /\ procs' = procs]_vars

\* an error cleared while a login is awaiting its answer
C10_Witness ==
    /\ last = Ran("clearError")
    /\ error = null
    /\ \E p \in DOMAIN procs : procs[p].kind = "login" /\ InFlight(p)

---------------------------------------------------------------------------
(* ApiClient: token store and authenticated operations *)

\* C11: getAccessToken() called right after setTokens(a, r) returns a, and called
\* right after clearTokens() returns null, whatever the store held before.
C11_TokenRoundTrip ==
    last.op = "getAccessToken" =>
        /\ last.prev.op = "setTokens" => last.result = Some(last.prev.args[1])
        /\ last.prev.op = "clearTokens" => last.result = null

\* a read after tokens were written over a store that held others
C11_Witness ==
    /\ last.op = "getAccessToken"
    /\ last.prev = [op |-> "setTokens", args |-> <<"a1", "r1">>]
    /\ last.result = Some("a1")
    /\ getItem(localStorage, REFRESH) = Some("r1")

\* C12: an authenticated operation called while no access token is stored (or
\* an empty one) throws {message: "Not authenticated", statusCode: 401} and hands
\* nothing to fetch; called with a token stored it hands to fetch a request to its
\* endpoint carrying Authorization: Bearer <the stored access token>.
C12_AuthenticatedRequest ==
    last.op \in AuthenticatedOps =>
        LET stored == getItem(localStorage, ACCESS)
            outcome == last.result[1]
        IN  IF stored = null \/ stored = Some("")
            THEN outcome = [ok |-> FALSE,
                            error |-> [message |-> "Not authenticated", statusCode |-> 401]]
            ELSE /\ outcome.ok
                 /\ outcome.value.Authorization = <<"Bearer", stored[1]>>
                 /\ outcome.value.endpoint \in
                        {"/auth/me", "/auth/logout", "/admin/users", "/admin/users/:id/role",
                         "/admin/commissions", "/admin/commissions/:id"}

\* getUsers refused locally on an empty store
C12_Witness ==
    /\ last.op = "getUsers"
    /\ localStorage = <<>>
    /\ ~last.result[1].ok
    /\ last.result[1].error.statusCode = 401

\* C15 (as claimed): isAuthenticated() returns true exactly when getAccessToken()
\* returns a value, the empty string included.
C15_PresencePredicate ==
    last.op = "isAuthenticated" => (last.result[1] <=> getAccessToken(localStorage) # null)

\* C15 (amended): isAuthenticated() returns true exactly when the store holds a
\* non-empty access token, and it leaves the store as it was.
C15_NonEmptyToken ==
    [][last'.op = "isAuthenticated" =>
            /\ last'.result[1] <=> (/\ ACCESS \in DOMAIN localStorage
                                    /\ localStorage[ACCESS] # "")
            /\ localStorage' = localStorage]_vars

\* isAuthenticated() answering false on a stored empty access token
C15_Witness ==
    /\ last.op = "isAuthenticated"
    /\ getItem(localStorage, ACCESS) = Some("")
    /\ last.result = Some(FALSE)

---------------------------------------------------------------------------
(* Session guard: logout's tokens, login failures, overtaken logins *)

\* C13: the step in which a logout settles (its remote call resolved, was refused
\* by the backend, failed in transport, or was never made for want of a token)
\* leaves neither an access nor a refresh token in the store.
C13_LogoutClearsTokens ==
    [][\A p \in DOMAIN procs' : Completes(p, "logout") => NoTokens(localStorage')]_vars

\* a logout with tokens stored whose remote call failed in transport
C13_Witness ==
    /\ Len(procs) = 2
    /\ procs[1].branch = "admin"
    /\ procs[2].kind = "logout" /\ procs[2].pc = "done"
    /\ Len(procs[2].calls) = 1
    /\ last.op = "logout" /\ last.answer # null /\ last.answer[1] \in TransportErrors
    /\ NoTokens(localStorage)

\* the message a failed answer carries, by the time login catches it
FailureMessage(answer) ==
    IF "thrown" \in DOMAIN answer
    THEN IF answer.thrown.message = "" THEN "Login failed." ELSE answer.thrown.message
    ELSE IF answer.data.message = "" THEN "An error occurred" ELSE answer.data.message

\* this step hands invocation p of login a failed answer to either of its calls
LoginFails(p) ==
    /\ Resumes(p, "login", "awaitLogin") \/ Resumes(p, "login", "awaitMe")
    /\ ~Is2xx(last'.answer[1])

\* this step hands invocation p of login an admin's login response whose access
\* token is empty, so that the profile fetch is refused before it is sent
LoginFailsLocally(p) ==
    /\ Resumes(p, "login", "awaitLogin")
    /\ Is2xx(last'.answer[1])
    /\ last'.answer[1].data.user.role = "ADMIN"
    /\ last'.answer[1].data.accessToken = ""

\* C17: a failed answer to login's credential call or to its profile fetch ends
\* the login with error set to the failure's message when that is non-empty and to
\* "Login failed." otherwise, user as it was (null for a login from the anonymous
\* state), no navigation and isLoading = false.
C17_LoginFailure ==
    [][\A p \in DOMAIN procs :
        /\ LoginFails(p) => error' = Some(FailureMessage(last'.answer[1]))
        /\ LoginFailsLocally(p) => error' = Some("Not authenticated")
        /\ (LoginFails(p) \/ LoginFailsLocally(p)) =>
            /\ user' = user
            /\ procs[p].solo => user' = null
            /\ procs'[p].pc = "done"
            /\ procs'[p].nav = <<>>
            /\ isLoading' = FALSE]_vars

\* a login whose profile fetch failed with an error that carries no message
C17_Witness ==
    /\ Len(procs) = 2
    /\ procs[2].kind = "login" /\ procs[2].pc = "done"
    /\ Len(procs[2].calls) = 2
    /\ last = Got("login", [thrown |-> [name |-> "Error", message |-> ""]])
    /\ error = Some("Login failed.")
    /\ user = null
    /\ ~isLoading

\* C18: nothing guards a login's continuation against what ran meanwhile: every
\* successful answer to a login's profile fetch sets user to the fetched record and
\* navigates to "/", also after a logout that ran to completion in between.
C18_NoGenerationGuard ==
    [][\A p \in DOMAIN procs :
        (Resumes(p, "login", "awaitMe") /\ Is2xx(last'.answer[1])) =>
            /\ user' = Some(last'.answer[1].data)
            /\ procs'[p].nav = <<"/">>]_vars

\* a login is started, a logout started after it has completed (user reset, tokens
\* cleared, navigate('/login') called), and the login's late response has then set
\* user and navigated to "/"
C18_Witness ==
    /\ Len(procs) = 3
    /\ procs[2].kind = "login" /\ procs[2].branch = "admin" /\ procs[2].nav = <<"/">>
    /\ procs[3].kind = "logout" /\ procs[3].pc = "done" /\ procs[3].nav = <<"/login">>
    /\ last.op = "login" /\ last.answer # null
    /\ user # null
    /\ NoTokens(localStorage)

\* C20 (as claimed): whenever no hydration, login or logout is in flight, a
\* non-null user implies that the store holds an access token.
C20_AuthenticatedHasToken ==
    (Settled /\ user # null) => getAccessToken(localStorage) # null

---------------------------------------------------------------------------
(* Route gates *)

\* C16: in every state with isLoading = true both gates render the loading
\* placeholder and decide no redirect; with isLoading = false the protected content
\* is rendered exactly when isAuthenticated, an anonymous session is sent to
\* "/login", and LoginRoute sends an authenticated session to "/" and shows the
\* login form otherwise.
C16_RouteGating ==
    LET protected == ProtectedRoute(isLoading, isAuthenticated)
        loginRoute == LoginRoute(isLoading, isAuthenticated)
    IN  /\ isLoading =>
            /\ protected = [render |-> "Loading..."]
            /\ loginRoute = [render |-> "Loading..."]
        /\ ~isLoading =>
            /\ protected = [render |-> "children"] <=> user # null
            /\ user = null => protected = [navigate |-> "/login"]
            /\ user # null => loginRoute = [navigate |-> "/"]
            /\ user = null => loginRoute = [render |-> "Login"]

\* a login in flight in an authenticated session: both gates show the placeholder
C16_Witness ==
    /\ isLoading
    /\ user # null
    /\ \E p \in DOMAIN procs : procs[p].kind = "login" /\ InFlight(p)
    /\ LoginRoute(isLoading, isAuthenticated) = Placeholder
    /\ ProtectedRoute(isLoading, isAuthenticated) = Placeholder

---------------------------------------------------------------------------
(* pages/Users and pages/Commissions: one page mounted in an admin's session *)

\* handler invocations after the mount effect's fetch
MaxTasks == 1

\* rows the backend may list
UserRows == {<<>>, <<[id |-> "u1", name |-> "Ann", role |-> "AGENT"]>>}
PaginatedUsers == {[users |-> rows] : rows \in UserRows}
\* (the body of GET /admin/commissions is a bare array: it is kept under rows)
ServiceCommissions ==
    {[rows |-> <<>>], [rows |-> <<[id |-> "c1", value |-> 7, isActive |-> TRUE]>>]}

UsersAnswers == {HttpOk(d) : d \in PaginatedUsers} \cup Failures
CommissionsAnswers == {HttpOk(d) : d \in ServiceCommissions} \cup Failures
MutationAnswers == {HttpOk([id |-> "c1"])} \cup Failures

\* what can be typed into the value field
FormValues == {"", "0", "-3", "7"}

\* parseFloat on those, null standing for NaN
parseFloat(s) ==
    CASE s = "" -> null
      [] s = "0" -> Some(0)
      [] s = "-3" -> Some(-3)
      [] s = "7" -> Some(7)

\* String(c.value) for the values listed
String(n) == CASE n = 7 -> "7"

\* useState initial values of the two components
UsersView ==
    [page |-> "Users", data |-> null, loading |-> TRUE, updatingId |-> null, message |-> null]
CommissionsView ==
    [page |-> "Commissions", commissions |-> <<>>, loading |-> TRUE, message |-> null,
     showForm |-> FALSE, editingId |-> null, saving |-> FALSE, formValue |-> ""]

Message(type, text) == Some([type |-> type, text |-> text])

PageInit ==
    /\ view \in {UsersView, CommissionsView}
    /\ procs = <<Proc(IF view.page = "Users" THEN "fetchUsers" ELSE "fetchCommissions",
                      "init", <<>>, FALSE)>>
    /\ localStorage \in {<<>>, setTokens(<<>>, "a1", "r1")}
    /\ user = Some([id |-> "u1", role |-> "ADMIN", provider |-> "local"])
    /\ isLoading = FALSE
    /\ error = null
    /\ notAdminSince = FALSE
    /\ last = Ran("mount")
    /\ leftover = null

\* the pages write no state of the session guard
PageFrame == UNCHANGED <<localStorage, user, isLoading, error, notAdminSince, leftover>>

PageCanInvoke == procs[1].pc # "init" /\ Len(procs) < 1 + MaxTasks

\* the rows a handler can be invoked on: the table is rendered once loading is over
UsersShown == IF view.loading \/ view.data = null THEN <<>> ELSE view.data[1].users
CommissionsShown == IF view.loading THEN <<>> ELSE view.commissions

\* the finally block of the handler of that kind, if it has one
Finally(kind, v) ==
    CASE kind = "handleRoleChange" -> [v EXCEPT !.updatingId = null]
      [] kind = "handleSubmit" -> [v EXCEPT !.saving = FALSE]
      [] OTHER -> v

\* the rest of fetchUsers once api.getUsers settled with outcome
fetchUsersSettled(v, outcome) ==
    [v EXCEPT !.data = IF outcome.ok THEN Some(outcome.value) ELSE @, !.loading = FALSE]

\* the rest of fetchCommissions once api.getCommissions settled with outcome
fetchCommissionsSettled(v, outcome) ==
    [v EXCEPT !.commissions = IF outcome.ok THEN outcome.value.rows ELSE @, !.loading = FALSE]

fetchSettled(v, outcome) ==
    IF v.page = "Users" THEN fetchUsersSettled(v, outcome) ELSE fetchCommissionsSettled(v, outcome)

\* the page's fetch function called by invocation p (the fetch itself, or a handler
\* awaiting it), v being the view by then: up to the await, or through to the end
\* of p when the request is refused locally
fetchList(p, rec, v) ==
    LET req == IF v.page = "Users" THEN api_getUsers(localStorage)
               ELSE api_getCommissions(localStorage)
        loading == [v EXCEPT !.loading = TRUE]
    IN  IF req.ok
        THEN /\ view' = loading
             /\ procs' = Step(p, Sent(rec, "awaitList", req.value))
        ELSE /\ view' = Finally(rec.kind, fetchSettled(loading, req))
             /\ procs' = Step(p, Resolve(rec, "listFailed"))

\* useEffect(() => { fetchUsers() }, [fetchUsers]): on mount, and again whenever
\* search, roleFilter or page changed
fetchUsers ==
    /\ view.page = "Users"
    /\ IF procs[1].pc = "init"
       THEN fetchList(1, procs[1], view)
       ELSE /\ PageCanInvoke
            /\ fetchList(Len(procs) + 1, Proc("fetchUsers", "init", <<>>, FALSE), view)
    /\ last' = Ran("fetchUsers")
    /\ PageFrame

\* useEffect(() => { fetchCommissions() }, [fetchCommissions]): on mount
fetchCommissions ==
    /\ view.page = "Commissions"
    /\ procs[1].pc = "init"
    /\ fetchList(1, procs[1], view)
    /\ last' = Ran("fetchCommissions")
    /\ PageFrame

\* the answer to GET /admin/users or GET /admin/commissions arrives
fetchResume(p) ==
    /\ procs[p].pc = "awaitList"
    /\ \E answer \in IF view.page = "Users" THEN UsersAnswers ELSE CommissionsAnswers :
        LET outcome == request(answer) IN
        /\ view' = Finally(procs[p].kind, fetchSettled(view, outcome))
        /\ procs' = Step(p, Resolve(procs[p], IF outcome.ok THEN "listed" ELSE "listFailed"))
        /\ last' = Got(procs[p].kind, answer)
    /\ PageFrame

\* the text of the error message of the handler of that kind, err being the error
\* caught and args the arguments of the call
ErrorText(kind, args, err) ==
    CASE kind = "handleRoleChange" -> "Failed to update role for " \o args[1].name
      [] kind = "handleSubmit" -> OrElse(err.message, "Failed to save commission")
      [] kind = "handleDelete" -> OrElse(err.message, "Failed to delete commission")
      [] kind = "handleToggleActive" -> OrElse(err.message, "Failed to update status")

\* faulty variant: the catch only logs the error
Caught_logsOnly(rec, v, err) ==
    Finally(rec.kind, v)

\* catch (err) { setMessage({type: 'error', ...}) } finally { ... } of a handler
Caught(rec, v, err) ==
    Finally(rec.kind, [v EXCEPT !.message = Message("error", ErrorText(rec.kind, rec.got, err))])

\* resetForm()
resetForm(v) == [v EXCEPT !.formValue = "", !.editingId = null, !.showForm = FALSE]

\* the statements between a handler's mutation call and its `await fetch...()`
Succeeded(rec, v) ==
    CASE rec.kind = "handleRoleChange" ->
            [v EXCEPT !.message =
                Message("success", rec.got[1].name \o "'s role updated to " \o rec.got[2])]
      [] rec.kind = "handleSubmit" ->
            resetForm([v EXCEPT !.message =
                Message("success", IF rec.got[1] # null
                                   THEN "Commission rate updated successfully"
                                   ELSE "Commission rate created successfully")])
      [] rec.kind = "handleDelete" ->
            [v EXCEPT !.message = Message("success", "Commission rate deleted")]
      [] rec.kind = "handleToggleActive" -> v

\* a handler from its mutation call on, v being the view by then: up to the
\* await, or through its catch when the request is refused locally
mutate(p, rec, v, req) ==
    IF req.ok
    THEN /\ view' = v
         /\ procs' = Step(p, Sent(rec, "awaitMutation", req.value))
    ELSE /\ view' = Caught(rec, v, req.error)
         /\ procs' = Step(p, Resolve(rec, "failed"))

\* the answer to a handler's mutation call arrives
mutateResume(p) ==
    /\ procs[p].pc = "awaitMutation"
    /\ \E answer \in MutationAnswers :
        LET outcome == request(answer) IN
        /\ IF outcome.ok
           THEN fetchList(p, procs[p], Succeeded(procs[p], view))
           ELSE /\ view' = Caught(procs[p], view, outcome.error)
                /\ procs' = Step(p, Resolve(procs[p], "failed"))
        /\ last' = Got(procs[p].kind, answer)
    /\ PageFrame

\* the role select of the row of user is changed to newRole
handleRoleChange ==
    /\ view.page = "Users"
    /\ PageCanInvoke
    /\ UsersShown # <<>>
    /\ view.updatingId # Some(UsersShown[1].id)
    /\ \E newRole \in UserRole :
        LET u == UsersShown[1]
            p == Len(procs) + 1
            rec == Proc("handleRoleChange", "init", <<>>, FALSE)
        IN  IF u.role = newRole
            THEN /\ procs' = Step(p, Resolve(rec, "same"))
                 /\ UNCHANGED view
            ELSE mutate(p, Received(Received(rec, u), newRole),
                        [view EXCEPT !.updatingId = Some(u.id), !.message = null],
                        api_updateUserRole(localStorage))
    /\ last' = Ran("handleRoleChange")
    /\ PageFrame

\* "+ Add Rate"
openForm ==
    /\ view.page = "Commissions"
    /\ ~view.showForm
    /\ view' = [view EXCEPT !.showForm = TRUE, !.message = null]
    /\ last' = Ran("openForm")
    /\ UNCHANGED procs
    /\ PageFrame

\* the edit button of a row
handleEdit ==
    /\ view.page = "Commissions"
    /\ CommissionsShown # <<>>
    /\ LET c == CommissionsShown[1] IN
       view' = [view EXCEPT !.editingId = Some(c.id), !.formValue = String(c.value),
                            !.showForm = TRUE, !.message = null]
    /\ last' = Ran("handleEdit")
    /\ UNCHANGED procs
    /\ PageFrame

\* typing into the value field
setFormValue ==
    /\ view.page = "Commissions"
    /\ view.showForm
    /\ \E typed \in FormValues \ {view.formValue} : view' = [view EXCEPT !.formValue = typed]
    /\ last' = Ran("setFormValue")
    /\ UNCHANGED procs
    /\ PageFrame

\* the form is submitted
handleSubmit ==
    /\ view.page = "Commissions"
    /\ PageCanInvoke
    /\ view.showForm
    /\ ~view.saving
    /\ LET value == parseFloat(view.formValue)
           p == Len(procs) + 1
           rec == Proc("handleSubmit", "init", <<>>, FALSE)
       IN  IF value = null \/ value[1] <= 0
           THEN /\ view' = [view EXCEPT !.message =
                                Message("error", "Please enter a valid positive number")]
                /\ procs' = Step(p, Resolve(rec, "invalid"))
           ELSE mutate(p, Received(rec, view.editingId),
                       [view EXCEPT !.saving = TRUE, !.message = null],
                       IF view.editingId # null THEN api_updateCommission(localStorage)
                       ELSE api_createCommission(localStorage))
    /\ last' = Ran("handleSubmit")
    /\ PageFrame

\* the delete button of a row; confirmed is what confirm() answered
handleDelete ==
    /\ view.page = "Commissions"
    /\ PageCanInvoke
    /\ CommissionsShown # <<>>
    /\ \E confirmed \in BOOLEAN :
        LET p == Len(procs) + 1
            rec == Proc("handleDelete", "init", <<>>, FALSE)
        IN  IF ~confirmed
            THEN /\ procs' = Step(p, Resolve(rec, "declined"))
                 /\ UNCHANGED view
            ELSE mutate(p, rec, [view EXCEPT !.message = null],
                        api_deleteCommission(localStorage))
    /\ last' = Ran("handleDelete")
    /\ PageFrame

\* the active switch of a row
handleToggleActive ==
    /\ view.page = "Commissions"
    /\ PageCanInvoke
    /\ CommissionsShown # <<>>
    /\ mutate(Len(procs) + 1, Proc("handleToggleActive", "init", <<>>, FALSE),
              [view EXCEPT !.message = null], api_updateCommission(localStorage))
    /\ last' = Ran("handleToggleActive")
    /\ PageFrame

\* the close button of the message
dismissMessage ==
    /\ view.message # null
    /\ view' = [view EXCEPT !.message = null]
    /\ last' = Ran("dismissMessage")
    /\ UNCHANGED procs
    /\ PageFrame

PageNext ==
    \/ fetchUsers
    \/ fetchCommissions
    \/ \E p \in DOMAIN procs : fetchResume(p)
    \/ \E p \in DOMAIN procs : mutateResume(p)
    \/ handleRoleChange
    \/ openForm
    \/ handleEdit
    \/ setFormValue
    \/ handleSubmit
    \/ handleDelete
    \/ handleToggleActive
    \/ dismissMessage

PageSpec == PageInit /\ [][PageNext]_vars

---------------------------------------------------------------------------
(* Settlement *)

\* invocation p, a hydration or a login, has not returned yet
Pending(p) ==
    p \in DOMAIN procs /\ procs[p].kind \in {"checkAuth", "login"} /\ procs[p].pc # "done"

\* C14: the session starts with isLoading = true; when every network call issued
\* eventually returns, every hydration and every login eventually returns, and the
\* step in which it returns, on whichever branch, leaves isLoading = false.
C14_Settlement ==
    /\ isLoading = TRUE
    /\ [][\A p \in DOMAIN procs' :
            (Completes(p, "checkAuth") \/ Completes(p, "login")) => ~isLoading']_vars
    /\ \A p \in Invocations : Pending(p) ~> (p \in DOMAIN procs /\ procs[p].pc = "done")

\* a login that was rejected has returned, after a hydration that found no token
C14_Witness ==
    /\ Len(procs) = 2
    /\ procs[1].pc = "done" /\ procs[1].branch = "notoken"
    /\ procs[2].kind = "login" /\ procs[2].pc = "done" /\ procs[2].branch = "failed"
    /\ ~isLoading

---------------------------------------------------------------------------
(* Page-level failures *)

ListHandlers == {"fetchUsers", "fetchCommissions"}
MutationHandlers == {"handleRoleChange", "handleSubmit", "handleDelete", "handleToggleActive"}

\* this step ends invocation p on a failure of its list call, or of its mutation
\* call: the call was refused for want of a token, or its answer was no 2xx
ListFails(p) ==
    /\ Completes(p, procs'[p].kind)
    /\ \/ Resumes(p, procs'[p].kind, "awaitList") /\ ~Is2xx(last'.answer[1])
       \/ p \notin DOMAIN procs /\ procs'[p].kind \in ListHandlers /\ localStorage = <<>>
       \/ p \in DOMAIN procs /\ procs[p].pc = "init" /\ localStorage = <<>>
MutationFails(p) ==
    /\ Completes(p, procs'[p].kind)
    /\ \/ Resumes(p, procs'[p].kind, "awaitMutation") /\ ~Is2xx(last'.answer[1])
       \/ /\ p \notin DOMAIN procs /\ procs'[p].kind \in MutationHandlers
          /\ procs'[p].branch \notin {"same", "invalid", "declined"}
          /\ localStorage = <<>>

\* no failure leaves a handler, and what a handler set busy it has reset by its end
HandlersContain ==
    \A p \in DOMAIN procs' :
        Completes(p, procs'[p].kind) =>
            /\ ~procs'[p].rejected
            /\ (procs'[p].kind \in ListHandlers \/ procs'[p].branch \in {"listed", "listFailed"})
                    => ~view'.loading
            /\ procs'[p].kind = "handleRoleChange" /\ procs'[p].branch # "same"
                    => view'.updatingId = null
            /\ procs'[p].kind = "handleSubmit" /\ procs'[p].branch # "invalid"
                    => ~view'.saving

ShowsError(v) == v.message # null /\ v.message[1].type = "error"

\* the text a commission handler shows for a failed answer
ShownFor(kind, answer) ==
    IF "thrown" \in DOMAIN answer
    THEN IF answer.thrown.message # "" THEN answer.thrown.message
         ELSE CASE kind = "handleSubmit" -> "Failed to save commission"
                [] kind = "handleDelete" -> "Failed to delete commission"
                [] kind = "handleToggleActive" -> "Failed to update status"
    ELSE IF answer.data.message # "" THEN answer.data.message ELSE "An error occurred"

\* C19 (as claimed): every failing list or mutation call of the Users and
\* Commissions views leaves an inline message of type 'error'; no failure leaves
\* its handler; loading, updatingId and saving are reset on every exit path.
C19_EveryFailureShown ==
    [][/\ \A p \in DOMAIN procs' : (ListFails(p) \/ MutationFails(p)) => ShowsError(view')
       /\ HandlersContain]_vars

\* C19 (amended): a failing mutation call (update role, create, update, delete,
\* toggle) leaves a message of type 'error' carrying the handler's text; a failing
\* list call (on mount, on a filter change, or awaited after a successful mutation)
\* is caught and only logged: message and rows stay as they were; no failure
\* leaves its handler; loading, updatingId and saving are reset on every exit path.
C19_FailuresContained ==
    [][/\ \A p \in DOMAIN procs' :
            /\ MutationFails(p) =>
                /\ ShowsError(view')
                /\ view'.message[1].text =
                     IF procs'[p].kind = "handleRoleChange" THEN "Failed to update role for Ann"
                     ELSE IF p \in DOMAIN procs
                          THEN ShownFor(procs'[p].kind, last'.answer[1])
                          ELSE "Not authenticated"
            /\ ListFails(p) =>
                /\ view'.message = view.message
                /\ view.page = "Users" => view'.data = view.data
                /\ view.page = "Commissions" => view'.commissions = view.commissions
       /\ HandlersContain]_vars

\* the users list failed to load on mount: loading is over, nothing is shown
C19_Witness ==
    /\ view.page = "Users"
    /\ Len(procs) = 1
    /\ procs[1].kind = "fetchUsers" /\ procs[1].pc = "done" /\ procs[1].branch = "listFailed"
    /\ last.op = "fetchUsers" /\ last.answer # null /\ last.answer[1] \in HttpErrors
    /\ ~view.loading
    /\ view.message = null
    /\ view.data = null

---------------------------------------------------------------------------
(* The loading flag under overlapping operations *)

\* C22 (as claimed): in every reachable state isLoading is true whenever a
\* hydration or a login has a network call in flight.
C22_LoadingWhileInFlight ==
    (\E p \in DOMAIN procs : procs[p].kind \in {"checkAuth", "login"} /\ InFlight(p))
        => isLoading

---------------------------------------------------------------------------
(* Page loads one after another: what a failed login leaves to the next hydration *)

\* login/logout invocations followed per page load, where loads are followed
MaxPerLoad == 1

LoadCanInvoke == Len(procs) < 1 + MaxPerLoad

\* this step ends invocation p, a login run alone from the anonymous state, on a
\* failure of its profile fetch, its credential call having succeeded
ProfileFetchFailed(p) ==
    /\ p \in DOMAIN procs /\ procs[p].kind = "login" /\ procs[p].solo
    /\ last'.op = "login" /\ last'.answer # null
    /\ procs'[p].pc = "done" /\ procs'[p].branch = "failed"
    /\ \/ procs[p].pc = "awaitMe"
       \/ procs[p].pc = "awaitLogin" /\ Is2xx(last'.answer[1])

\* the token pair the credential call of that login wrote
WrittenBy(p) ==
    LET response == IF procs[p].pc = "awaitMe" THEN procs[p].got[1] ELSE last'.answer[1].data
    IN  <<response.accessToken, response.refreshToken>>

\* leftover follows the step
Tracked ==
    leftover' =
        IF \E p \in DOMAIN procs : ProfileFetchFailed(p)
        THEN Some(WrittenBy(CHOOSE p \in DOMAIN procs : ProfileFetchFailed(p)))
        ELSE IF localStorage' = localStorage THEN leftover ELSE null

LoadsNext ==
    \/ checkAuth /\ UNCHANGED view /\ Tracked
    \/ checkAuthResume /\ UNCHANGED view /\ Tracked
    \/ LoadCanInvoke /\ login /\ UNCHANGED view /\ Tracked
    \/ \E p \in DOMAIN procs : loginResume(p) /\ UNCHANGED view /\ Tracked
    \/ \E p \in DOMAIN procs : loginResumeMe(p) /\ UNCHANGED view /\ Tracked
    \/ LoadCanInvoke /\ logout /\ UNCHANGED view /\ Tracked
    \/ \E p \in DOMAIN procs : logoutResume(p) /\ UNCHANGED view /\ Tracked
    \/ clearError /\ UNCHANGED view /\ Tracked
    \/ Reload /\ UNCHANGED view /\ Tracked

LoadsSpec == Init /\ [][LoadsNext]_vars

\* a login, run alone, whose profile fetch fails leaves the pair its credential
\* call wrote in the store, with user = null, error set and isLoading = false
TokensLeftBehind ==
    \A p \in DOMAIN procs :
        ProfileFetchFailed(p) =>
            /\ getItem(localStorage', ACCESS) = Some(WrittenBy(p)[1])
            /\ getItem(localStorage', REFRESH) = Some(WrittenBy(p)[2])
            /\ user' = null
            /\ error' # null
            /\ ~isLoading'

\* this step is the start of a hydration on a store as such a login left it
HydratesOnLeftover == leftover # null /\ procs[1].pc = "init" /\ last'.op = "checkAuth"

\* the hydration sends GET /auth/me with the access token left behind
UsesLeftover ==
    /\ procs'[1].pc = "awaitMe"
    /\ procs'[1].calls =
         <<[endpoint |-> "/auth/me", Authorization |-> <<"Bearer", leftover[1][1]>>]>>

\* C21 (as claimed): a login whose credential call succeeds for an ADMIN and whose
\* profile fetch fails leaves the token pair in the store, the session Anonymous;
\* a later hydration uses that token and is never the no-token case.
C21_LeftoverTokenUsed ==
    [][TokensLeftBehind /\ (HydratesOnLeftover => UsesLeftover)]_vars

\* C21 (amended): the pair is left in the store as claimed; a later hydration uses
\* the access token left behind when it is non-empty, and takes the no-token
\* branch, sending nothing, when it is the empty string.
C21_LeftoverTokenUsedIfNonEmpty ==
    [][/\ TokensLeftBehind
       /\ HydratesOnLeftover =>
            IF leftover[1][1] # "" THEN UsesLeftover
            ELSE procs'[1].branch = "notoken" /\ procs'[1].calls = <<>>]_vars

\* after a reload, the hydration has sent the token of a login whose profile
\* fetch had failed
C21_Witness ==
    /\ leftover = Some(<<"a1", "r1">>)
    /\ Len(procs) = 1
    /\ procs[1].pc = "awaitMe"
    /\ procs[1].calls[1].Authorization = <<"Bearer", "a1">>
    /\ last = Ran("checkAuth")
    /\ user = null

====
